---- MODULE Spec2Model ----
(***************************************************************************)
(* Model of the invoice batch generator (src/main.py): pattern matching    *)
(* of glob/fnmatch, the template renderer's recipient section, and the     *)
(* batch driver main() run repeatedly over one input directory.            *)
(*                                                                         *)
(* File names and invoice numbers are sequences of tokens.  A token is a   *)
(* single character, except the fixed literals "invoice_", ".pdf",         *)
(* ".yaml", ".txt" and the eight-digit dates, which are kept as one token  *)
(* each (none of them is a pattern metacharacter).                         *)
(***************************************************************************)
EXTENDS Naturals, Integers, Sequences, FiniteSets, TLC

VARIABLES
    invoices,        \* the invoices/ directory: file name -> file content
    output,          \* the output/ directory: set of artifact file names
    today,           \* index of the current date (datetime.now())
    pc,              \* position of main(): "idle", "loop", "done", "render", "rendered"
    regenerate,      \* args.regenerate
    invoice_files,   \* main's invoice_files list
    idx,             \* position of the for loop in invoice_files
    invoice_data,    \* the record last loaded / handed to the renderer
    markdown_content,\* result of the last create_markdown_invoice call
    status,          \* file name -> outcome of the current run
    loaded,          \* file names load_invoice_data was called on in this run
    written,         \* file name -> artifact path generate_pdf wrote for it in this run
    processed_count,
    skipped_count,
    console,         \* the closing report of the run
    output0          \* output/ as it was when the current run started

vars == << invoices, output, today, pc, regenerate, invoice_files, idx,
           invoice_data, markdown_content, status, loaded, written,
           processed_count, skipped_count, console, output0 >>

----------------------------------------------------------------------------
(* Bounds *)

MaxDay == 2

MaxEmailLen == 3

----------------------------------------------------------------------------
(* glob / fnmatch *)

RECURSIVE FirstIndex(_, _, _)
\* smallest k >= j with p[k] = c, or 0 when there is none
FirstIndex(p, c, j) ==
    IF j > Len(p) THEN 0
    ELSE IF p[j] = c THEN j
    ELSE FirstIndex(p, c, j + 1)

\* fnmatch.translate: position of the "]" closing the class opened at p[1] = "[",
\* or 0 when the "[" is not closed and stands for itself
ClassEnd(p) ==
    LET j1 == IF Len(p) >= 2 /\ p[2] = "!" THEN 3 ELSE 2
        j2 == IF j1 <= Len(p) /\ p[j1] = "]" THEN j1 + 1 ELSE j1
    IN  FirstIndex(p, "]", j2)

\* whether token c belongs to the class p[2..e-1]
InClass(p, e, c) ==
    LET negated == p[2] = "!"
        first   == IF negated THEN 3 ELSE 2
        members == { p[k] : k \in first..(e - 1) }
    IN  IF negated THEN c \notin members ELSE c \in members

RECURSIVE fnmatch(_, _)
\* fnmatch.fnmatch(name, pat) on token sequences ("*" and "[...]" only;
\* the modelled names hold no "?" and no "-")
fnmatch(name, pat) ==
    IF pat = << >> THEN name = << >>
    ELSE IF Head(pat) = "*"
    THEN fnmatch(name, Tail(pat))
         \/ (name # << >> /\ fnmatch(Tail(name), pat))
    ELSE IF Head(pat) = "[" /\ ClassEnd(pat) > 0
    THEN /\ name # << >>
         /\ InClass(pat, ClassEnd(pat), Head(name))
         /\ fnmatch(Tail(name), SubSeq(pat, ClassEnd(pat) + 1, Len(pat)))
    ELSE /\ name # << >>
         /\ Head(name) = Head(pat)
         /\ fnmatch(Tail(name), Tail(pat))

\* glob.glob(pattern) over the files of one directory
glob(dir, pattern) == { f \in dir : fnmatch(f, pattern) }

----------------------------------------------------------------------------
(* Dates and artifact names *)

\* datetime.now().strftime('%Y%m%d') for the modelled days
strftime(d) ==
    << "20240101", "20240102", "20240103", "20240104", "20240105" >>[d]

\* f"output/invoice_{invoice_number}_{date}.pdf" (base name)
output_filename(invoice_number, d) ==
    << "invoice_" >> \o invoice_number \o << "_", strftime(d), ".pdf" >>

\* os.path.join(output_dir, f"invoice_{invoice_number}_*.pdf") (base name)
pdf_pattern(invoice_number) ==
    << "invoice_" >> \o invoice_number \o << "_", "*", ".pdf" >>

\* Mutant: the existence check forgets the force flag.
check_existing_pdf_unforced(invoice_number, output_dir, force_regenerate) ==
    glob(output_dir, pdf_pattern(invoice_number)) # {}

\* Mutant: the existence check looks for the artifact of today only.
check_existing_pdf_same_day(invoice_number, output_dir, force_regenerate) ==
    ~force_regenerate /\ output_filename(invoice_number, today) \in output_dir

check_existing_pdf(invoice_number, output_dir, force_regenerate) ==
    IF force_regenerate THEN FALSE
    ELSE glob(output_dir, pdf_pattern(invoice_number)) # {}

----------------------------------------------------------------------------
(* Records *)

RequiredFields ==
    { "invoice_number", "invoice_date", "due_date", "from_name", "from_email",
      "to_name", "services", "total_amount", "payment_instructions", "terms" }

InvoiceNumbers ==
    { << "a" >>, << "a", "_", "b" >>, << "[", "a", "]" >> }

NoNumber == << >>

\* A to_email value as yaml.safe_load can yield it: the key absent, null, a
\* string (its characters), an integer or a boolean (its printed form).
Absent == [type |-> "absent", val |-> << >>]

Null == [type |-> "null", val |-> << >>]

Str(chars) == [type |-> "str", val |-> chars]

\* A file content: parses says whether yaml.safe_load yields a mapping, missing
\* is the set of required keys the mapping lacks, writable says whether
\* generate_pdf can write the artifact for it.
Record(parses, missing, number, email, writable) ==
    [ parses |-> parses, missing |-> missing, invoice_number |-> number,
      to_name |-> << "B", "o", "b" >>, to_email |-> email, writable |-> writable ]

Malformed == Record(FALSE, {}, NoNumber, Absent, TRUE)

\* invoice_data before any file is loaded
NoData == Malformed

Records ==
    { Malformed, Record(TRUE, {"invoice_number"}, NoNumber, Absent, TRUE) }
    \cup { Record(TRUE, {}, n, Absent, TRUE) : n \in InvoiceNumbers }
    \cup { Record(TRUE, {"terms"}, n, Absent, TRUE) : n \in InvoiceNumbers }
    \cup { Record(TRUE, {}, n, Absent, FALSE) : n \in InvoiceNumbers }

IsValid(r) == r.parses /\ r.missing = {} /\ r.writable

----------------------------------------------------------------------------
(* Template renderer *)

Whitespace == { " ", "\t", "\n" }

RECURSIVE lstrip(_)
lstrip(s) ==
    IF s # << >> /\ Head(s) \in Whitespace THEN lstrip(Tail(s)) ELSE s

RECURSIVE rstrip(_)
rstrip(s) ==
    IF s # << >> /\ s[Len(s)] \in Whitespace
    THEN rstrip(SubSeq(s, 1, Len(s) - 1)) ELSE s

\* str.strip()
strip(s) == rstrip(lstrip(s))

\* Python truth value of data.get("to_email")
Truthy(v) ==
    CASE v.type = "absent" -> FALSE
      [] v.type = "null"   -> FALSE
      [] v.type = "str"    -> v.val # << >>
      [] v.type = "int"    -> v.val # << "0" >>
      [] v.type = "bool"   -> v.val = << "True" >>

NoMarkdown == [raised |-> "none", to_section |-> << >>, called |-> FALSE]

Raise(e) == [raised |-> e, to_section |-> << >>, called |-> TRUE]

\* Mutant: a missing field is rendered as empty text instead of raising.
create_markdown_invoice_lenient(data) ==
    [ raised |-> "none", to_section |-> data.to_name, called |-> TRUE ]

\* create_markdown_invoice(data): the exception it raises, if any, and the
\* "To" section of the markdown it returns (the token "backtick" stands for
\* the backquote character).
create_markdown_invoice(data) ==
    IF "services" \in data.missing \/ "to_name" \in data.missing
    THEN Raise("KeyError")
    ELSE IF Truthy(data.to_email) /\ data.to_email.type # "str"
    THEN Raise("AttributeError")
    ELSE IF data.missing \cap RequiredFields # {}
    THEN Raise("KeyError")
    ELSE [ raised |-> "none",
           to_section |->
               IF Truthy(data.to_email) /\ strip(data.to_email.val) # << >>
               THEN data.to_name \o << "  ", "\n", "Email: ", "backtick" >>
                        \o data.to_email.val \o << "backtick" >>
               ELSE data.to_name,
           called |-> TRUE ]

----------------------------------------------------------------------------
(* Input directory *)

TemplateName == << "_", "t", ".yaml" >>

FileNames ==
    { << "a", ".yaml" >>, << "b", "_", ".yaml" >>, TemplateName, << "n", ".txt" >> }

\* Mutant: no file is taken for a template.
startswith_nothing(f) == FALSE

\* os.path.basename(f).startswith('_')
startswith_underscore(f) == f # << >> /\ Head(f) = "_"

\* get_invoice_files(): the *.yaml files that are not templates (as a set;
\* main fixes the list order)
get_invoice_files(dir) ==
    { f \in glob(DOMAIN dir, << "*", ".yaml" >>) : ~startswith_underscore(f) }

\* The input directories explored: the two plain *.yaml files hold any record,
\* the template and the text file hold a valid or a malformed record.
Directories ==
    { d \in UNION { [S -> Records] : S \in SUBSET FileNames } :
        \A f \in DOMAIN d :
            (startswith_underscore(f) \/ f[Len(f)] # ".yaml")
                => d[f] \in { Malformed, Record(TRUE, {}, << "a" >>, Absent, TRUE) } }

Orders(S) ==
    { o \in [1..Cardinality(S) -> S] : \A i, j \in DOMAIN o : o[i] = o[j] => i = j }

NoConsole == [kind |-> "none", generated |-> 0, skipped |-> 0, skipped_shown |-> FALSE]

----------------------------------------------------------------------------
(* Batch driver *)

Init ==
    /\ invoices \in Directories
    /\ output = {}
    /\ today = 1
    /\ pc = "idle"
    /\ regenerate = FALSE
    /\ invoice_files = << >>
    /\ idx = 1
    /\ invoice_data = NoData
    /\ markdown_content = NoMarkdown
    /\ status = [f \in DOMAIN invoices |-> "none"]
    /\ loaded = {}
    /\ written = [f \in DOMAIN invoices |-> << >>]
    /\ processed_count = 0
    /\ skipped_count = 0
    /\ console = NoConsole
    /\ output0 = {}

\* The date changes while the program is idle or between two records.
Tick ==
    /\ pc \in {"idle", "loop", "done"}
    /\ today < MaxDay
    /\ today' = today + 1
    /\ UNCHANGED << invoices, output, pc, regenerate, invoice_files, idx,
                    invoice_data, markdown_content, status, loaded, written,
                    processed_count, skipped_count, console, output0 >>

\* What every start of main() resets.
ResetRun(force) ==
    /\ regenerate' = force
    /\ idx' = 1
    /\ status' = [f \in DOMAIN invoices |-> "none"]
    /\ loaded' = {}
    /\ written' = [f \in DOMAIN invoices |-> << >>]
    /\ processed_count' = 0
    /\ skipped_count' = 0
    /\ output0' = output
    /\ invoice_data' = NoData
    /\ markdown_content' = NoMarkdown
    /\ UNCHANGED << invoices, output, today >>

\* main(), lines 108-129: no candidate, two notices and return.
MainNoFiles ==
    /\ pc \in {"idle", "done"}
    /\ get_invoice_files(invoices) = {}
    /\ \E force \in BOOLEAN : ResetRun(force)
    /\ invoice_files' = << >>
    /\ console' = [NoConsole EXCEPT !.kind = "nofiles"]
    /\ pc' = "done"

\* main(), lines 108-143: the candidates in the order glob listed them.
MainStart ==
    /\ pc \in {"idle", "done"}
    /\ get_invoice_files(invoices) # {}
    /\ \E force \in BOOLEAN : ResetRun(force)
    /\ \E order \in Orders(get_invoice_files(invoices)) : invoice_files' = order
    /\ console' = NoConsole
    /\ pc' = "loop"

\* generate_pdf(markdown_content, output_filename): the artifact is written,
\* replacing what the path held.
generate_pdf(dir, path) == dir \cup {path}

Outcome(st, dir, path, md, rendered) ==
    [status |-> st, output |-> dir, path |-> path, md |-> md, rendered |-> rendered]

\* The body of the for loop, lines 146-171, for the record data, the output
\* directory dir and the date d: the record's terminal state, the output
\* directory it leaves, the path it wrote and the markdown it built.
process_invoice(data, dir, force, d) ==
    LET md   == create_markdown_invoice(data)
        path == output_filename(data.invoice_number, d)
    IN  IF ~data.parses \/ "invoice_number" \in data.missing
        THEN Outcome("failed", dir, << >>, NoMarkdown, FALSE)
        ELSE IF check_existing_pdf(data.invoice_number, dir, force)
        THEN Outcome("skipped", dir, << >>, NoMarkdown, FALSE)
        ELSE IF md.raised # "none" \/ ~data.writable
        THEN Outcome("failed", dir, << >>, md, TRUE)
        ELSE Outcome("generated", generate_pdf(dir, path), path, md, TRUE)

\* Mutant: an error leaves the loop.
next_index_abort(i, st, n) == IF st = "failed" THEN n + 1 ELSE i + 1

\* The for loop after a record ended in state st, lines 145 and 170-171: the
\* except clause swallows the error and the loop goes on to the next file.
next_index(i, st, n) == i + 1

\* One iteration of the for loop, lines 145-171.
ProcessInvoice ==
    /\ pc = "loop"
    /\ idx <= Len(invoice_files)
    /\ LET f == invoice_files[idx]
           r == process_invoice(invoices[f], output, regenerate, today)
       IN  /\ loaded' = loaded \cup {f}
           /\ invoice_data' = invoices[f]
           /\ markdown_content' = IF r.rendered THEN r.md ELSE markdown_content
           /\ status' = [status EXCEPT ![f] = r.status]
           /\ output' = r.output
           /\ written' = [written EXCEPT ![f] = r.path]
           /\ processed_count' =
                  IF r.status = "generated" THEN processed_count + 1 ELSE processed_count
           /\ skipped_count' =
                  IF r.status = "skipped" THEN skipped_count + 1 ELSE skipped_count
           /\ idx' = next_index(idx, r.status, Len(invoice_files))
    /\ UNCHANGED << invoices, today, pc, regenerate, invoice_files, console, output0 >>

\* Mutant: the skipped count is printed in forced mode too.
summary_with_skipped(processed, skipped, force) ==
    [ kind |-> "summary", generated |-> processed, skipped |-> skipped,
      skipped_shown |-> TRUE ]

\* The closing report, lines 173-176.
summary(processed, skipped, force) ==
    [ kind |-> "summary", generated |-> processed, skipped |-> skipped,
      skipped_shown |-> ~force ]

\* main(), lines 173-176, once the loop is over.
MainSummary ==
    /\ pc = "loop"
    /\ idx > Len(invoice_files)
    /\ console' = summary(processed_count, skipped_count, regenerate)
    /\ pc' = "done"
    /\ UNCHANGED << invoices, output, today, regenerate, invoice_files, idx,
                    invoice_data, markdown_content, status, loaded, written,
                    processed_count, skipped_count, output0 >>

Next == Tick \/ MainNoFiles \/ MainStart \/ ProcessInvoice \/ MainSummary

Spec == Init /\ [][Next]_vars

----------------------------------------------------------------------------
(* The template renderer alone, on every to_email value *)

EmailChars == { " ", "x", "@" }

Strings(n) == UNION { [1..k -> EmailChars] : k \in 0..n }

EmailValues ==
    { Absent, Null }
    \cup { Str(s) : s \in Strings(MaxEmailLen) }
    \cup { [type |-> "int", val |-> << v >>] : v \in { "0", "5" } }
    \cup { [type |-> "bool", val |-> << v >>] : v \in { "True", "False" } }

RenderInit ==
    /\ invoices = << >>
    /\ output = {}
    /\ today = 1
    /\ pc = "render"
    /\ regenerate = FALSE
    /\ invoice_files = << >>
    /\ idx = 1
    /\ \E e \in EmailValues, m \in { {}, {"terms"} } :
           invoice_data = Record(TRUE, m, << "a" >>, e, TRUE)
    /\ markdown_content = NoMarkdown
    /\ status = << >>
    /\ loaded = {}
    /\ written = << >>
    /\ processed_count = 0
    /\ skipped_count = 0
    /\ console = NoConsole
    /\ output0 = {}

\* One call of create_markdown_invoice(invoice_data), line 158.
Render ==
    /\ pc = "render"
    /\ markdown_content' = create_markdown_invoice(invoice_data)
    /\ pc' = "rendered"
    /\ UNCHANGED << invoices, output, today, regenerate, invoice_files, idx,
                    invoice_data, status, loaded, written, processed_count,
                    skipped_count, console, output0 >>

RenderNext == Render

RenderSpec == RenderInit /\ [][RenderNext]_vars

----------------------------------------------------------------------------
(* Vocabulary of the properties *)

Candidates == { invoice_files[i] : i \in 1..Len(invoice_files) }

\* main() went through its candidates and printed the closing report.
RunOver == pc = "done" /\ console.kind = "summary"

HasNumber(r) == r.parses /\ "invoice_number" \notin r.missing

\* The record is malformed or lacks a required field.
Defective(r) == ~r.parses \/ r.missing # {}

\* The artifacts of dir written for invoice number n, on any day.
OwnArtifacts(n, dir) ==
    { a \in dir : \E d \in 1..MaxDay : a = output_filename(n, d) }

WithStatus(st) == { f \in Candidates : status[f] = st }

Without(seq, k) == SubSeq(seq, 1, k - 1) \o SubSeq(seq, k + 1, Len(seq))

RECURSIVE BatchStatus(_, _, _, _)
\* The terminal states main's loop gives the files of seq, in order, starting
\* from the output directory dir.
BatchStatus(seq, dir, force, d) ==
    IF seq = << >> THEN << >>
    ELSE LET r == process_invoice(invoices[Head(seq)], dir, force, d)
         IN  << r.status >> \o BatchStatus(Tail(seq), r.output, force, d)

\* to_email is absent, empty (null, "", 0, false) or whitespace-only.
Blank(v) ==
    \/ v.type \in { "absent", "null" }
    \/ v.type = "str" /\ \A i \in 1..Len(v.val) : v.val[i] \in Whitespace
    \/ v.type = "int" /\ v.val = << "0" >>
    \/ v.type = "bool" /\ v.val = << "False" >>

EmailLine(v) == << "  ", "\n", "Email: ", "backtick" >> \o v.val \o << "backtick" >>

----------------------------------------------------------------------------
(* Properties *)

\* C1: after a run without the force flag, a valid record whose invoice number
\* had no artifact when the run started has exactly one artifact, named from
\* its number and a date of the run and counted as generated; a valid record
\* whose number already had an artifact (a second run) is skipped and its
\* artifacts are the ones the run found.
C1_OnceThenSkip ==
    (RunOver /\ ~regenerate) =>
        \A f \in Candidates :
            IsValid(invoices[f]) =>
                LET n == invoices[f].invoice_number
                IN  IF OwnArtifacts(n, output0) = {}
                    THEN \E g \in WithStatus("generated") :
                             /\ invoices[g].invoice_number = n
                             /\ OwnArtifacts(n, output) = { written[g] }
                    ELSE /\ status[f] = "skipped"
                         /\ OwnArtifacts(n, output) = OwnArtifacts(n, output0)

\* C2: with the force flag no record is ever skipped, every candidate of a
\* finished run is generated or failed, and a valid record is rendered to the
\* path of its number and date, which replaces the artifact already there (the
\* directory holds what it held plus the paths written) and is counted.
C2_ForceNeverSkips ==
    regenerate =>
        /\ \A f \in DOMAIN status : status[f] # "skipped"
        /\ skipped_count = 0
        /\ RunOver => \A f \in Candidates : status[f] \in { "generated", "failed" }
        /\ \A f \in loaded :
               IsValid(invoices[f]) =>
                   /\ status[f] = "generated"
                   /\ written[f] \in OwnArtifacts(invoices[f].invoice_number, output)
        /\ output = output0 \cup { written[f] : f \in WithStatus("generated") }
        /\ processed_count = Cardinality(WithStatus("generated"))

\* C2 witness: a forced run rendered a valid record onto an artifact that
\* existed before the run.
C2_Witness ==
    /\ RunOver /\ regenerate
    /\ \E f \in Candidates :
           /\ IsValid(invoices[f])
           /\ status[f] = "generated"
           /\ written[f] \in output0

\* C3: when a run is over every candidate has been processed, and each valid
\* record has the terminal state the same run gives it with any one failed
\* record taken out of the batch.
C3_FailureIsolated ==
    RunOver =>
        /\ \A f \in Candidates : status[f] \in { "generated", "skipped", "failed" }
        /\ \A k \in 1..Len(invoice_files) :
               status[invoice_files[k]] = "failed" =>
                   LET rest == Without(invoice_files, k)
                       ref  == BatchStatus(rest, output0, regenerate, today)
                   IN  \A j \in 1..Len(rest) :
                           IsValid(invoices[rest[j]]) =>
                               /\ status[rest[j]] = ref[j]
                               /\ ref[j] \in { "generated", "skipped" }

\* C3 witness: a finished run in which a failed record came before a valid one.
C3_Witness ==
    /\ RunOver
    /\ Len(invoice_files) = 2
    /\ status[invoice_files[1]] = "failed"
    /\ IsValid(invoices[invoice_files[2]])
    /\ status[invoice_files[2]] = "generated"

\* C4 as claimed: without the force flag a record is skipped only when an
\* artifact of its number with today's date exists, and a valid record whose
\* artifacts all carry earlier dates is rendered into one more artifact.  It
\* is stated for the records whose pattern matches no artifact but their own.
C4_SameDayOnly ==
    [][ \A f \in DOMAIN status :
            LET n == invoices[f].invoice_number
            IN  ( /\ ProcessInvoice /\ ~regenerate /\ f = invoice_files[idx]
                  /\ glob(output, pdf_pattern(n)) = OwnArtifacts(n, output) ) =>
                    /\ status'[f] = "skipped" => output_filename(n, today) \in output
                    /\ ( /\ IsValid(invoices[f])
                         /\ OwnArtifacts(n, output) # {}
                         /\ output_filename(n, today) \notin output )
                       => ( /\ status'[f] = "generated"
                            /\ output_filename(n, today) \in output' ) ]_vars

\* C4 amended: without the force flag a record is skipped exactly when some
\* artifact name matches invoice_<number>_*.pdf, whatever date it carries; a
\* record whose number holds no pattern character and has an artifact of any
\* date is skipped and gets no further artifact.
C4_AnyDateDedup ==
    ~regenerate =>
        \A f \in loaded :
            LET n == invoices[f].invoice_number
            IN  HasNumber(invoices[f]) =>
                /\ status[f] = "skipped" =>
                       \E a \in output : fnmatch(a, pdf_pattern(n))
                /\ (\E a \in output0 : fnmatch(a, pdf_pattern(n))) =>
                       status[f] = "skipped" /\ written[f] = << >>
                /\ ("[" \notin { n[i] : i \in 1..Len(n) } /\ OwnArtifacts(n, output0) # {}) =>
                       /\ status[f] = "skipped"
                       /\ OwnArtifacts(n, output) = OwnArtifacts(n, output0)

\* C4 witness: a record was skipped although no artifact of its number carries
\* today's date, only an earlier one.
C4_Witness ==
    /\ RunOver /\ ~regenerate
    /\ \E f \in WithStatus("skipped") :
           LET n == invoices[f].invoice_number
           IN  /\ output_filename(n, today) \notin output
               /\ \E d \in 1..(today - 1) : output_filename(n, d) \in output0
               /\ OwnArtifacts(n, output) = OwnArtifacts(n, output0)

\* C5 as claimed: every processed record that is malformed or lacks a required
\* field ends failed.
C5_DefectiveAlwaysFails ==
    \A f \in loaded : Defective(invoices[f]) => status[f] = "failed"

\* C5 amended: a defective record is never generated; it ends failed, except
\* that one that has its invoice_number is skipped, in a run without the force
\* flag, exactly when an artifact name matched invoice_<number>_*.pdf.
C5_DefectiveNeverGenerated ==
    \A f \in loaded :
        Defective(invoices[f]) =>
            /\ status[f] \in { "failed", "skipped" }
            /\ written[f] = << >>
            /\ (~HasNumber(invoices[f]) \/ regenerate) => status[f] = "failed"
            /\ status[f] = "skipped" =>
                   \E a \in output : fnmatch(a, pdf_pattern(invoices[f].invoice_number))
            /\ ( /\ HasNumber(invoices[f]) /\ ~regenerate
                 /\ \E a \in output0 : fnmatch(a, pdf_pattern(invoices[f].invoice_number)) )
               => status[f] = "skipped"

\* C5 witness: a finished run skipped a record that lacks a required field.
C5_Witness ==
    /\ RunOver
    /\ \E f \in WithStatus("skipped") : invoices[f].missing = { "terms" }

\* C6: a file whose name begins with an underscore is never in the candidate
\* list, never loaded, never given a terminal state, never counted and never
\* written for; every other *.yaml file is a candidate of every run.
C6_TemplatesNeverCandidates ==
    /\ \A f \in DOMAIN invoices :
           Head(f) = "_" =>
               /\ f \notin Candidates
               /\ f \notin loaded
               /\ status[f] = "none"
               /\ written[f] = << >>
    /\ processed_count =
           Cardinality({ f \in DOMAIN invoices : Head(f) # "_" /\ status[f] = "generated" })
    /\ skipped_count =
           Cardinality({ f \in DOMAIN invoices : Head(f) # "_" /\ status[f] = "skipped" })
    /\ output \ output0 \subseteq
           { written[f] : f \in { g \in DOMAIN invoices : Head(g) # "_" } }
    /\ pc \in { "loop", "done" } =>
           \A f \in DOMAIN invoices :
               (Head(f) # "_" /\ f[Len(f)] = ".yaml") => f \in Candidates

\* C6 witness: a finished run over a directory that holds a template with a
\* valid record next to a candidate that was generated.
C6_Witness ==
    /\ RunOver
    /\ TemplateName \in DOMAIN invoices
    /\ IsValid(invoices[TemplateName])
    /\ WithStatus("generated") # {}

\* C7 as claimed: every run of main() ends with the summary.
C7_AlwaysSummary ==
    pc = "done" => console.kind = "summary"

\* C7 amended: a run over at least one candidate is, inside the loop, always
\* at a file it can process or at the closing report, and ends with the summary of the generated and skipped counts, the skipped
\* count shown unless forced, whatever failed; a run over no candidate ends
\* with the no-files notice and no summary.
C7_SummaryUnlessEmpty ==
    /\ pc = "loop" =>
           /\ idx \in 1..(Len(invoice_files) + 1)
           /\ idx <= Len(invoice_files) => invoice_files[idx] \in DOMAIN invoices
    /\ pc = "done" =>
           IF get_invoice_files(invoices) = {}
           THEN console.kind = "nofiles"
           ELSE /\ console.kind = "summary"
                /\ console.generated = Cardinality(WithStatus("generated"))
                /\ console.skipped = Cardinality(WithStatus("skipped"))
                /\ console.skipped_shown = ~regenerate
                /\ Candidates = get_invoice_files(invoices)
                /\ \A f \in Candidates : status[f] # "none"

\* C7 witness: a run without the force flag in which a record failed and
\* another was skipped ended with the summary.
C7_Witness ==
    /\ RunOver /\ ~regenerate
    /\ WithStatus("failed") # {}
    /\ WithStatus("skipped") # {}
    /\ console.skipped = 1

\* C8: after a run the generated count is the number of distinct artifact
\* paths the run wrote, each named from its record's number and a date.
C8_OneDocumentPerGenerated ==
    RunOver =>
        /\ processed_count = Cardinality({ written[f] : f \in WithStatus("generated") })
        /\ \A f \in WithStatus("generated") :
               written[f] \in OwnArtifacts(invoices[f].invoice_number, output)

\* C9: create_markdown_invoice never raises on a record with every required
\* field, leaves the email line out when to_email is absent, empty or
\* whitespace-only, and puts the value in verbatim otherwise.
C9_EmailLine ==
    (pc = "rendered" /\ invoice_data.missing = {}) =>
        /\ markdown_content.raised = "none"
        /\ markdown_content.to_section =
               IF Blank(invoice_data.to_email)
               THEN invoice_data.to_name
               ELSE invoice_data.to_name \o EmailLine(invoice_data.to_email)

\* C10: without the force flag a record is skipped only when an artifact
\* written for its own invoice number exists.
C10_SkipOnlyOnOwnArtifact ==
    ~regenerate =>
        \A f \in DOMAIN status :
            status[f] = "skipped" =>
                OwnArtifacts(invoices[f].invoice_number, output) # {}

====
